---- MODULE Spec2Model ----
(***************************************************************************)
(* Model of the retrieval-augmented answering pipeline of isro-bot:        *)
(*   runRAG          server/utils/rag.js and server/utils/ragSystem.js     *)
(*   runAdvancedRAG  server/utils/ragSystem.js                             *)
(*   runBatchRAG     server/utils/ragSystem.js                             *)
(*   POST /api/chat  server/chat.js (the variant with query logging)       *)
(*                                                                         *)
(* Strings are sequences of tokens.  A token is either one of the markers  *)
(* the code searches for with String.includes ("API_KEY", "quota",         *)
(* "model", "authentication", "RAG") or a run of text without a marker,    *)
(* so  s.includes(m)  is "some token of s is m" and a template literal is  *)
(* concatenation.  The emoji that open the literal messages are left out.  *)
(* Numbers are integers; temperature is counted in tenths (0.7 is 7).      *)
(***************************************************************************)
EXTENDS Integers, Sequences, FiniteSets, TLC

(***************************************************************************)
(* Bounds of the model.                                                    *)
(***************************************************************************)
MaxChunks == 2

MaxQueries == 3

(***************************************************************************)
(* JavaScript values of the two string arguments.                          *)
(***************************************************************************)
Str(s) == [t |-> "string", s |-> s]

NonString == [t |-> "number", s |-> <<>>]

Undefined == [t |-> "undefined", s |-> <<>>]

\* Falsy that takes only undefined for falsy, letting '' through
FalsyOnlyUndefined(v) == v.t = "undefined"

\* !v for the values above: '' and undefined are falsy, a number (42) and a
\* non-empty string are truthy.
Falsy(v) == \/ v.t = "undefined"
            \/ v.t = "string" /\ v.s = <<>>

\* String.prototype.includes(marker)
Includes(msg, marker) == \E j \in DOMAIN msg : msg[j] = marker

\* String.prototype.trim(): whitespace is the token " "
RECURSIVE TrimStart(_)
TrimStart(s) == IF s # <<>> /\ Head(s) = " " THEN TrimStart(Tail(s)) ELSE s

RECURSIVE TrimEnd(_)
TrimEnd(s) == IF s # <<>> /\ s[Len(s)] = " "
              THEN TrimEnd(SubSeq(s, 1, Len(s) - 1))
              ELSE s

Trim(s) == TrimEnd(TrimStart(s))

(***************************************************************************)
(* The literal messages of the source.                                     *)
(***************************************************************************)
MsgInputText == <<"Input text must be a non-empty string">>

MsgUserQuery == <<"User query must be a non-empty string">>

MsgKeyRequired == <<"GEMINI_", "API_KEY", " environment variable is required">>

MsgApiKey == <<"Gemini API key is missing or invalid. Please check your GEMINI_",
               "API_KEY", " environment variable.">>

MsgQuota == <<"Gemini API ", "quota", " exceeded. Please check your usage limits.">>

MsgModel == <<"Gemini ", "model", " error. The specified ", "model",
              " may not be available.">>

RagErrorPrefix == <<"RAG", " system error: ">>

\* thrown by the RecursiveCharacterTextSplitter constructor (langchain)
MsgSplitter == <<"Cannot have chunkOverlap >= chunkSize">>

MsgQueries == <<"Queries must be a non-empty array">>

\* messages of the POST /api/chat handler
ChatMsgQueryRequired == <<"Query is required and must be a string">>

ChatMsgKeyMissing == <<"Error: Gemini API key not configured">>

ChatMsgNoKnowledgeBase == <<"Error: MOSDAC knowledge base not available">>

ChatMsgDefault == <<"Error: Unable to process your request at the moment">>

ChatMsgAuth == <<"Error: Invalid Gemini API key configuration">>

ChatMsgQuota == <<"Error: Gemini API ", "quota", " exceeded">>

ChatMsgModel == <<"Error: AI ", "model", " temporarily unavailable">>

ChatMsgRag == <<"Error: Knowledge retrieval system unavailable">>

(***************************************************************************)
(* Failure details of the external services: some raw text together with   *)
(* any combination of the markers runRAG looks for, or with the marker      *)
(* "authentication" that only the chat handler looks for.                  *)
(***************************************************************************)
Markers == {"API_KEY", "quota", "model"}

MarkerOrder == <<"API_KEY", "quota", "model", "authentication">>

RECURSIVE DetailFrom(_, _)
DetailFrom(S, j) ==
  IF j > Len(MarkerOrder) THEN <<>>
  ELSE (IF MarkerOrder[j] \in S THEN <<MarkerOrder[j], " raw ">> ELSE <<>>)
       \o DetailFrom(S, j + 1)

\* text of a service error that is none of the markers
RawText == "raw service text "

DetailOf(S) == <<RawText>> \o DetailFrom(S, 1)

Details == {DetailOf(S) : S \in SUBSET Markers} \cup {DetailOf({"authentication"})}

\* texts the generation service answers with
Answers == {<<" ", "INSAT-3D is a satellite.", " ">>, <<"Sorry.">>, <<>>}

(***************************************************************************)
(* Inputs.                                                                 *)
(***************************************************************************)
KnowledgeText == Str(<<"INSAT-3D is a meteorological satellite.">>)

TextValues == {KnowledgeText, Str(<<>>), NonString}

QueryValues == {Str(<<"What is INSAT-3D?">>), Str(<<>>), NonString}

\* req.body.query: as above, or absent
ChatQueryValues == QueryValues \cup {Undefined}

NumericKeys == {"chunkSize", "chunkOverlap", "topK", "temperature", "maxTokens"}

\* values a caller may supply for a field
Supplied(k) ==
  CASE k = "chunkSize"    -> {0, 100, 800}
    [] k = "chunkOverlap" -> {0, 150}
    [] k = "topK"         -> {-1, 0, 1}
    [] k = "temperature"  -> {0, 5}
    [] k = "maxTokens"    -> {0, 50}

AllSupplied == UNION {Supplied(k) : k \in NumericKeys}

\* option objects: any subset of the fields, each with a supplied value
OptionObjects ==
  UNION {{o \in [S -> AllSupplied] : \A k \in S : o[k] \in Supplied(k)} :
           S \in SUBSET NumericKeys}

NoOptions == [k \in {} |-> 0]

\* values of the includeMetadata option: the literals true, false and null
Flags == {"true", "false", "null"}

\* option objects of runAdvancedRAG: the numeric fields and, possibly, the flag
AdvancedOptionObjects ==
  OptionObjects \cup
  {[k \in DOMAIN o \cup {"includeMetadata"} |->
      IF k = "includeMetadata" THEN f ELSE o[k]] : o \in OptionObjects, f \in Flags}

\* the options of the chat handler's call of runRAG
ChatOptions == [chunkSize |-> 800, chunkOverlap |-> 150, topK |-> 4,
                temperature |-> 7, maxTokens |-> 1000]

\* option objects passed to runBatchRAG
BatchOptionObjects == {NoOptions, [topK |-> 2, temperature |-> 4],
                       [chunkSize |-> 100]}

\* the queries argument of runBatchRAG: an array of values, or no array
Array(items) == [array |-> TRUE, items |-> items]

NotAnArray == [array |-> FALSE, items |-> <<>>]

RECURSIVE SeqsUpTo(_, _)
SeqsUpTo(S, n) ==
  IF n = 0 THEN {<<>>}
  ELSE LET shorter == SeqsUpTo(S, n - 1)
       IN shorter \cup {Append(q, x) : q \in {p \in shorter : Len(p) = n - 1}, x \in S}

QueryArguments == {Array(q) : q \in SeqsUpTo(QueryValues, MaxQueries)} \cup {NotAnArray}

Null == [t |-> "null", s |-> <<>>]

(***************************************************************************)
(* Object construction  { a: options.a || d, ..., ...options }.            *)
(***************************************************************************)
\* options.k || d  for a numeric field (undefined and 0 are falsy)
OrDefault(o, k, d) == IF k \in DOMAIN o /\ o[k] # 0 THEN o[k] ELSE d

\* Spread without the trailing ...options
SpreadKeepsBase(base, o) == base

\* { ...base, ...o }
Spread(base, o) ==
  [k \in DOMAIN base \cup DOMAIN o |-> IF k \in DOMAIN o THEN o[k] ELSE base[k]]

\* runRAGConfig without the trailing ...options
runRAGConfigNoSpread(o) ==
  [chunkSize    |-> OrDefault(o, "chunkSize", 1000),
   chunkOverlap |-> OrDefault(o, "chunkOverlap", 200),
   topK         |-> OrDefault(o, "topK", 4),
   temperature  |-> OrDefault(o, "temperature", 7),
   maxTokens    |-> OrDefault(o, "maxTokens", 1000)]

\* rag.js / ragSystem.js lines 36-43
runRAGConfig(o) ==
  Spread([chunkSize    |-> OrDefault(o, "chunkSize", 1000),
          chunkOverlap |-> OrDefault(o, "chunkOverlap", 200),
          topK         |-> OrDefault(o, "topK", 4),
          temperature  |-> OrDefault(o, "temperature", 7),
          maxTokens    |-> OrDefault(o, "maxTokens", 1000)], o)

\* runAdvancedRAGConfig with the defaults of runRAG
runAdvancedRAGConfigRunRAGDefaults(o) ==
  Spread([chunkSize       |-> OrDefault(o, "chunkSize", 1000),
          chunkOverlap    |-> OrDefault(o, "chunkOverlap", 200),
          topK            |-> OrDefault(o, "topK", 4),
          temperature     |-> OrDefault(o, "temperature", 7),
          maxTokens       |-> OrDefault(o, "maxTokens", 1000),
          includeMetadata |-> IF "includeMetadata" \in DOMAIN o
                                 /\ o["includeMetadata"] = "false"
                              THEN "false" ELSE "true"], o)

\* ragSystem.js lines 174-182; options.includeMetadata !== false is the literal
\* true unless the option is the literal false
runAdvancedRAGConfig(o) ==
  Spread([chunkSize       |-> OrDefault(o, "chunkSize", 800),
          chunkOverlap    |-> OrDefault(o, "chunkOverlap", 150),
          topK            |-> OrDefault(o, "topK", 5),
          temperature     |-> OrDefault(o, "temperature", 3),
          maxTokens       |-> OrDefault(o, "maxTokens", 1500),
          includeMetadata |-> IF "includeMetadata" \in DOMAIN o
                                 /\ o["includeMetadata"] = "false"
                              THEN "false" ELSE "true"], o)

\* !config.includeMetadata
FlagFalsy(f) == f \in {"false", "null"}

\* AdvancedResult that ignores the includeMetadata flag
AdvancedResultAlwaysObject(cfg, ans, query) ==
  [type |-> "object", fields |-> {"answer", "query", "timestamp", "config"},
   answer |-> ans, query |-> query, timestamp |-> "now",
   config |-> [k \in {"chunkSize", "chunkOverlap", "topK", "temperature"}
                 |-> cfg[k]]]

\* ragSystem.js lines 188-203: the value runAdvancedRAG returns
AdvancedResult(cfg, ans, query) ==
  IF FlagFalsy(cfg["includeMetadata"])
  THEN [type |-> "string", fields |-> {}, answer |-> ans, query |-> Undefined,
        timestamp |-> "", config |-> NoOptions]
  ELSE [type |-> "object", fields |-> {"answer", "query", "timestamp", "config"},
        answer |-> ans, query |-> query, timestamp |-> "now",
        config |-> [k \in {"chunkSize", "chunkOverlap", "topK", "temperature"}
                      |-> cfg[k]]]

NoResult == [type |-> "none", fields |-> {}, answer |-> <<>>, query |-> Undefined,
             timestamp |-> "", config |-> NoOptions]

\* the catch block of the chat handler, lines 318-337
ChatClassify(msg) ==
  IF Includes(msg, "API_KEY") \/ Includes(msg, "authentication") THEN ChatMsgAuth
  ELSE IF Includes(msg, "quota") THEN ChatMsgQuota
  ELSE IF Includes(msg, "model") THEN ChatMsgModel
  ELSE IF Includes(msg, "RAG") THEN ChatMsgRag
  ELSE ChatMsgDefault

NoResponse == [status |-> 0, body |-> [k \in {} |-> <<>>]]

(***************************************************************************)
(* Failure classification of the catch block of runRAG.                    *)
(***************************************************************************)
\* Classify with the model test placed before the quota test
ClassifyModelBeforeQuota(msg) ==
  IF Includes(msg, "API_KEY") THEN MsgApiKey
  ELSE IF Includes(msg, "model") THEN MsgModel
  ELSE IF Includes(msg, "quota") THEN MsgQuota
  ELSE RagErrorPrefix \o msg

Classify(msg) ==
  IF Includes(msg, "API_KEY") THEN MsgApiKey
  ELSE IF Includes(msg, "quota") THEN MsgQuota
  ELSE IF Includes(msg, "model") THEN MsgModel
  ELSE RagErrorPrefix \o msg

(***************************************************************************)
(* Retrieval (MemoryVectorStore.similaritySearch): the entries ranked by   *)
(* similarity, then  .slice(0, k).                                         *)
(***************************************************************************)
\* Slice0 that leaves out the first element: slice(1, k)
SliceFromOne(s, k) ==
  LET n == Len(s)
      end == IF k < 0 THEN (IF n + k < 0 THEN 0 ELSE n + k)
             ELSE (IF k > n THEN n ELSE k)
  IN SubSeq(s, 2, end)

\* Array.prototype.slice(0, k)
Slice0(s, k) ==
  LET n == Len(s)
      end == IF k < 0 THEN (IF n + k < 0 THEN 0 ELSE n + k)
             ELSE (IF k > n THEN n ELSE k)
  IN SubSeq(s, 1, end)

\* the orders in which the similarity scores may rank the documents
Rankings(docs) ==
  {r \in [1..Len(docs) -> 1..Len(docs)] :
     \A a, b \in 1..Len(docs) : a # b => r[a] # r[b]}

Ranked(docs, r) == [j \in 1..Len(docs) |-> docs[r[j]]]

\* the similarity scores the store may compute for a chunk (two chunks may
\* score the same)
Scores == 1..2

\* SortedDescending with the comparison turned round
SortedAscending(r, sim) ==
  \A a, b \in DOMAIN r : a < b => sim[r[a]] <= sim[r[b]]

\* the sort of the scored entries: a later entry never scores higher
SortedDescending(r, sim) ==
  \A a, b \in DOMAIN r : a < b => sim[r[a]] >= sim[r[b]]

\* BuildPrompt labelling the blocks with the array index itself
BuildPromptLabelsFromZero(docs, query) ==
  [context  |-> [j \in 1..Len(docs) |-> [label |-> j - 1, pageContent |-> docs[j]]],
   question |-> query]

\* lines 84-86 and 107-110: the labelled context blocks and the question
BuildPrompt(docs, query) ==
  [context  |-> [j \in 1..Len(docs) |-> [label |-> j, pageContent |-> docs[j]]],
   question |-> query]

NoPrompt == [context |-> <<>>, question |-> <<>>]

VARIABLES
  apiKey,        \* process.env.GEMINI_API_KEY is set
  knowledgeBase, \* mosdacKnowledgeBase of the chat server
  caller,        \* the operation in progress
  outcome,       \* of that operation: "pending", "returned" or "threw"
  raised,        \* message of the error the operation throws
  stage,         \* position of the runRAG execution
  inputText, userQuery, options,   \* arguments of runRAG
  config,        \* the merged configuration of runRAG
  documents,     \* chunks made by the splitter
  relevantDocs,  \* result of similaritySearch
  similarity,    \* similarity of each chunk to the query, computed by the search
  prompt,        \* the formatted prompt
  calls,         \* external service calls issued by this execution of runRAG
  answer,        \* value returned by runRAG
  thrown,        \* message of the error runRAG throws
  logged,        \* what this execution of runRAG wrote with console.error
  generationConfig,  \* generationConfig given to getGenerativeModel
  settled,       \* how the executions of runRAG of this operation ended, in order
  advOptions,    \* options argument of runAdvancedRAG
  advResult,     \* value returned by runAdvancedRAG
  queries, i, results,   \* runBatchRAG: argument, loop index, result array
  chatQuery,     \* req.body.query
  response,      \* status and JSON body sent by the chat handler
  apiTest,       \* value returned by testGeminiAPI
  executions,    \* overlapping executions of runRAG: the locals of each
  messages, inputField, isLoading,   \* state of the chat page (useState)
  inFlight       \* fetch('/api/chat') requests of the chat page not yet settled

runVars == <<stage, inputText, userQuery, options, config, documents,
             relevantDocs, similarity, prompt, calls, answer, thrown, logged,
             generationConfig>>

advVars == <<advOptions, advResult>>

batchVars == <<queries, i, results>>

chatVars == <<chatQuery, response, apiTest>>

concVars == <<executions>>

uiVars == <<messages, inputField, isLoading, inFlight>>

envVars == <<apiKey, knowledgeBase>>

vars == <<envVars, caller, outcome, raised, settled, runVars, advVars, batchVars,
          chatVars, concVars, uiVars>>

\* entry of runRAG: the arguments are bound, nothing has run yet
Enter(text, query, opts) ==
  /\ stage' = "validating"
  /\ inputText' = text
  /\ userQuery' = query
  /\ options' = opts
  /\ config' = NoOptions
  /\ documents' = <<>>
  /\ relevantDocs' = <<>>
  /\ similarity' = <<>>
  /\ prompt' = NoPrompt
  /\ calls' = <<>>
  /\ answer' = <<>>
  /\ thrown' = <<>>
  /\ logged' = <<>>
  /\ generationConfig' = NoOptions

\* the catch block of runRAG: log the raw message, throw the classified one
Fail(msg) ==
  /\ stage' = "failed"
  /\ logged' = Append(logged, msg)
  /\ thrown' = Classify(msg)
  /\ settled' = Append(settled, "failed")

\* what a step of runRAG leaves alone
CallerUnchanged ==
  UNCHANGED <<envVars, concVars, uiVars, caller, outcome, raised, advVars, batchVars, chatVars>>

\* runRAG_validate without the credential check of lines 31-33
runRAG_validateNoKeyCheck ==
  /\ stage = "validating"
  /\ IF Falsy(inputText) \/ inputText.t # "string" THEN
       /\ Fail(MsgInputText)
       /\ UNCHANGED config
     ELSE IF Falsy(userQuery) \/ userQuery.t # "string" THEN
       /\ Fail(MsgUserQuery)
       /\ UNCHANGED config
     ELSE
       /\ config' = runRAGConfig(options)
       /\ stage' = "segmenting"
       /\ UNCHANGED <<logged, thrown, settled>>
  /\ UNCHANGED <<inputText, userQuery, options, documents, relevantDocs,
                 similarity, prompt, calls, answer, generationConfig>>
  /\ CallerUnchanged

\* lines 22-43: validation of the arguments and of the credential, then the
\* configuration
runRAG_validate ==
  /\ stage = "validating"
  /\ IF Falsy(inputText) \/ inputText.t # "string" THEN
       /\ Fail(MsgInputText)
       /\ UNCHANGED config
     ELSE IF Falsy(userQuery) \/ userQuery.t # "string" THEN
       /\ Fail(MsgUserQuery)
       /\ UNCHANGED config
     ELSE IF ~apiKey THEN
       /\ Fail(MsgKeyRequired)
       /\ UNCHANGED config
     ELSE
       /\ config' = runRAGConfig(options)
       /\ stage' = "segmenting"
       /\ UNCHANGED <<logged, thrown, settled>>
  /\ UNCHANGED <<inputText, userQuery, options, documents, relevantDocs,
                 similarity, prompt, calls, answer, generationConfig>>
  /\ CallerUnchanged

\* lines 51-58: the splitter is constructed (it rejects an overlap that is not
\* smaller than the chunk size) and cuts the text into chunks
runRAG_split ==
  /\ stage = "segmenting"
  /\ IF config["chunkOverlap"] >= config["chunkSize"] THEN
       /\ Fail(MsgSplitter)
       /\ UNCHANGED documents
     ELSE
       /\ \E n \in 1..MaxChunks : documents' = [j \in 1..n |-> j]
       /\ stage' = "embedding"
       /\ UNCHANGED <<logged, thrown, settled>>
  /\ UNCHANGED <<inputText, userQuery, options, config, relevantDocs,
                 similarity, prompt, calls, answer, generationConfig>>
  /\ CallerUnchanged

\* runRAG_embedDocuments that calls the service a second time when the first
\* call fails
runRAG_embedDocumentsRetriesOnce ==
  /\ stage = "embedding"
  /\ calls' = Append(calls, "embedDocuments")
  /\ \/ /\ stage' = "embeddingQuery"
        /\ UNCHANGED <<logged, thrown, settled>>
     \/ /\ calls = <<>>
        /\ UNCHANGED <<stage, logged, thrown, settled>>
     \/ /\ calls # <<>>
        /\ \E d \in Details : Fail(d)
  /\ UNCHANGED <<inputText, userQuery, options, config, documents,
                 relevantDocs, similarity, prompt, answer, generationConfig>>
  /\ CallerUnchanged

\* lines 69-72: MemoryVectorStore.fromDocuments embeds every chunk with the
\* embedding service; the call succeeds or fails with some detail
runRAG_embedDocuments ==
  /\ stage = "embedding"
  /\ calls' = Append(calls, "embedDocuments")
  /\ \/ /\ stage' = "embeddingQuery"
        /\ UNCHANGED <<logged, thrown, settled>>
     \/ \E d \in Details : Fail(d)
  /\ UNCHANGED <<inputText, userQuery, options, config, documents,
                 relevantDocs, similarity, prompt, answer, generationConfig>>
  /\ CallerUnchanged

\* runRAG_embedQuery that logs a failure of the service and goes on with a
\* query vector computed locally
runRAG_embedQueryFallsBack ==
  /\ stage = "embeddingQuery"
  /\ calls' = Append(calls, "embedQuery")
  /\ stage' = "retrieving"
  /\ \/ UNCHANGED logged
     \/ \E d \in Details : logged' = Append(logged, d)
  /\ UNCHANGED <<thrown, settled>>
  /\ UNCHANGED <<inputText, userQuery, options, config, documents,
                 relevantDocs, similarity, prompt, answer, generationConfig>>
  /\ CallerUnchanged

\* lines 76-79, first part: similaritySearch embeds the query with the
\* embedding service; the call succeeds or fails with some detail
runRAG_embedQuery ==
  /\ stage = "embeddingQuery"
  /\ calls' = Append(calls, "embedQuery")
  /\ \/ /\ stage' = "retrieving"
        /\ UNCHANGED <<logged, thrown, settled>>
     \/ \E d \in Details : Fail(d)
  /\ UNCHANGED <<inputText, userQuery, options, config, documents,
                 relevantDocs, similarity, prompt, answer, generationConfig>>
  /\ CallerUnchanged

\* runRAG_similaritySearch handing its result to the generation step without
\* the prompt being built
runRAG_similaritySearchSkipsAssembly ==
  /\ stage = "retrieving"
  /\ \E sim \in [1..Len(documents) -> Scores], r \in Rankings(documents) :
       /\ SortedDescending(r, sim)
       /\ similarity' = sim
       /\ relevantDocs' = Slice0(Ranked(documents, r), config["topK"])
  /\ stage' = "generating"
  /\ UNCHANGED <<inputText, userQuery, options, config, documents, prompt,
                 calls, answer, thrown, logged, generationConfig, settled>>
  /\ CallerUnchanged

\* lines 76-79, second part: the store scores every chunk against the query
\* vector, sorts the chunks by descending score and returns the first
\* config.topK of them; a local computation
runRAG_similaritySearch ==
  /\ stage = "retrieving"
  /\ \E sim \in [1..Len(documents) -> Scores], r \in Rankings(documents) :
       /\ SortedDescending(r, sim)
       /\ similarity' = sim
       /\ relevantDocs' = Slice0(Ranked(documents, r), config["topK"])
  /\ stage' = "assembling"
  /\ UNCHANGED <<inputText, userQuery, options, config, documents, prompt,
                 calls, answer, thrown, logged, generationConfig, settled>>
  /\ CallerUnchanged

\* lines 84-110: context blocks and prompt
runRAG_assemble ==
  /\ stage = "assembling"
  /\ prompt' = BuildPrompt(relevantDocs, userQuery.s)
  /\ stage' = "generating"
  /\ UNCHANGED <<inputText, userQuery, options, config, documents,
                 relevantDocs, similarity, calls, answer, thrown, logged,
                 generationConfig, settled>>
  /\ CallerUnchanged

\* lines 114-129 (rag.js) / 113-147 (ragSystem.js): the generation call and
\* the trimmed answer
runRAG_generate ==
  /\ stage = "generating"
  /\ calls' = Append(calls, "generateContent")
  /\ generationConfig' = [temperature     |-> config["temperature"],
                          maxOutputTokens |-> config["maxTokens"]]
  /\ \/ /\ \E a \in Answers : answer' = Trim(a)
        /\ stage' = "done"
        /\ settled' = Append(settled, "done")
        /\ UNCHANGED <<logged, thrown>>
     \/ /\ \E d \in Details : Fail(d)
        /\ UNCHANGED answer
  /\ UNCHANGED <<inputText, userQuery, options, config, documents,
                 relevantDocs, similarity, prompt>>
  /\ CallerUnchanged

\* a direct call of runRAG(inputText, userQuery, options)
runRAG_call ==
  /\ caller = "none"
  /\ \E text \in TextValues, query \in QueryValues, opts \in OptionObjects :
       Enter(text, query, opts)
  /\ caller' = "runRAG"
  /\ outcome' = "pending"
  /\ UNCHANGED <<envVars, concVars, uiVars, raised, settled, advVars, batchVars, chatVars>>

\* runRAG settles its promise: the caller of a direct call gets the answer or
\* the error
runRAG_return ==
  /\ caller = "runRAG"
  /\ outcome = "pending"
  /\ stage \in {"done", "failed"}
  /\ outcome' = IF stage = "done" THEN "returned" ELSE "threw"
  /\ raised' = thrown
  /\ UNCHANGED <<envVars, concVars, uiVars, caller, settled, runVars, advVars, batchVars, chatVars>>

(***************************************************************************)
(* runAdvancedRAG, ragSystem.js lines 172-209.                             *)
(***************************************************************************)
\* lines 174-185: the configuration is built and handed to runRAG as options
runAdvancedRAG_call ==
  /\ caller = "none"
  /\ \E text \in TextValues, query \in QueryValues, opts \in AdvancedOptionObjects :
       /\ advOptions' = opts
       /\ Enter(text, query, runAdvancedRAGConfig(opts))
  /\ caller' = "runAdvancedRAG"
  /\ outcome' = "pending"
  /\ UNCHANGED <<envVars, concVars, uiVars, raised, settled, advResult, batchVars, chatVars>>

\* lines 188-208: the result, or the error of runRAG thrown again
runAdvancedRAG_return ==
  /\ caller = "runAdvancedRAG"
  /\ outcome = "pending"
  /\ stage \in {"done", "failed"}
  /\ IF stage = "done" THEN
       /\ advResult' = AdvancedResult(options, answer, userQuery)
       /\ outcome' = "returned"
       /\ UNCHANGED raised
     ELSE
       /\ outcome' = "threw"
       /\ raised' = thrown
       /\ UNCHANGED advResult
  /\ UNCHANGED <<envVars, concVars, uiVars, caller, settled, runVars, advOptions, batchVars, chatVars>>

(***************************************************************************)
(* runBatchRAG, ragSystem.js lines 218-256.                                *)
(***************************************************************************)
\* BatchOutcome without the inner try/catch distinction: every slot reports
\* success
BatchOutcomeAlwaysSuccess(q, ix, st, ans, err) ==
  [query |-> q, answer |-> Str(ans), index |-> ix + 1, status |-> "success"]

\* BatchOutcome numbering the slots from the loop variable itself
BatchOutcomeIndexFromZero(q, ix, st, ans, err) ==
  IF st = "done"
  THEN [query |-> q, answer |-> Str(ans), index |-> ix, status |-> "success"]
  ELSE [query |-> q, answer |-> Null, error |-> err, index |-> ix,
        status |-> "error"]

\* BatchOutcome whose error outcome keeps an answer text instead of null
BatchOutcomeErrorKeepsAnswer(q, ix, st, ans, err) ==
  IF st = "done"
  THEN [query |-> q, answer |-> Str(ans), index |-> ix + 1, status |-> "success"]
  ELSE [query |-> q, answer |-> Str(ans), error |-> err, index |-> ix + 1,
        status |-> "error"]

\* lines 232-237 and 239-245: the outcome pushed for queries[i]
BatchOutcome(q, ix, st, ans, err) ==
  IF st = "done"
  THEN [query |-> q, answer |-> Str(ans), index |-> ix + 1, status |-> "success"]
  ELSE [query |-> q, answer |-> Null, error |-> err, index |-> ix + 1,
        status |-> "error"]

\* runBatchRAG_call that returns an empty result list for an argument that is
\* not a non-empty array
runBatchRAG_callEmptyReturns ==
  /\ caller = "none"
  /\ caller' = "runBatchRAG"
  /\ \E text \in TextValues, qs \in QueryArguments, opts \in BatchOptionObjects :
       /\ queries' = qs
       /\ i' = 0
       /\ results' = <<>>
       /\ IF ~qs.array \/ Len(qs.items) = 0 THEN
            /\ outcome' = "returned"
            /\ UNCHANGED raised
            /\ UNCHANGED runVars
          ELSE
            /\ outcome' = "pending"
            /\ Enter(text, qs.items[1], opts)
            /\ UNCHANGED raised
  /\ UNCHANGED <<envVars, concVars, uiVars, settled, advVars, chatVars>>

\* lines 219-231: the argument check, then the first iteration calls runRAG
runBatchRAG_call ==
  /\ caller = "none"
  /\ caller' = "runBatchRAG"
  /\ \E text \in TextValues, qs \in QueryArguments, opts \in BatchOptionObjects :
       /\ queries' = qs
       /\ i' = 0
       /\ results' = <<>>
       /\ IF ~qs.array \/ Len(qs.items) = 0 THEN
            /\ outcome' = "threw"
            /\ raised' = MsgQueries
            /\ UNCHANGED runVars
          ELSE
            /\ outcome' = "pending"
            /\ Enter(text, qs.items[1], opts)
            /\ UNCHANGED raised
  /\ UNCHANGED <<envVars, concVars, uiVars, settled, advVars, chatVars>>

\* runBatchRAG_next without the await: the loop goes on while runRAG is still
\* running
runBatchRAG_nextWithoutAwait ==
  /\ caller = "runBatchRAG"
  /\ outcome = "pending"
  /\ results' = Append(results, BatchOutcome(queries.items[i + 1], i, stage,
                                             answer, thrown))
  /\ i' = i + 1
  /\ IF i + 1 < Len(queries.items) THEN
       /\ Enter(inputText, queries.items[i + 2], options)
       /\ UNCHANGED outcome
     ELSE
       /\ outcome' = "returned"
       /\ UNCHANGED runVars
  /\ UNCHANGED <<envVars, concVars, uiVars, caller, raised, settled, queries, advVars, chatVars>>

\* lines 231-250: runRAG has settled; its outcome is pushed, and the loop
\* calls runRAG for the next query or the function returns the results
runBatchRAG_next ==
  /\ caller = "runBatchRAG"
  /\ outcome = "pending"
  /\ stage \in {"done", "failed"}
  /\ results' = Append(results, BatchOutcome(queries.items[i + 1], i, stage,
                                             answer, thrown))
  /\ i' = i + 1
  /\ IF i + 1 < Len(queries.items) THEN
       /\ Enter(inputText, queries.items[i + 2], options)
       /\ UNCHANGED outcome
     ELSE
       /\ outcome' = "returned"
       /\ UNCHANGED runVars
  /\ UNCHANGED <<envVars, concVars, uiVars, caller, raised, settled, queries, advVars, chatVars>>

(***************************************************************************)
(* POST /api/chat, server/chat.js lines 259-346.                           *)
(***************************************************************************)
Json(st, field, msg) == [status |-> st, body |-> (field :> msg)]

\* lines 265-303: the checks of the handler, then the call of runRAG
chat_request ==
  /\ caller = "none"
  /\ caller' = "chat"
  /\ \E query \in ChatQueryValues :
       /\ chatQuery' = query
       /\ IF Falsy(query) \/ query.t # "string" THEN
            /\ response' = Json(400, "error", ChatMsgQueryRequired)
            /\ outcome' = "returned"
            /\ UNCHANGED runVars
          ELSE IF ~apiKey THEN
            /\ response' = Json(500, "answer", ChatMsgKeyMissing)
            /\ outcome' = "returned"
            /\ UNCHANGED runVars
          ELSE IF Falsy(knowledgeBase) THEN
            /\ response' = Json(500, "answer", ChatMsgNoKnowledgeBase)
            /\ outcome' = "returned"
            /\ UNCHANGED runVars
          ELSE
            /\ Enter(knowledgeBase, query, ChatOptions)
            /\ outcome' = "pending"
            /\ UNCHANGED response
  /\ UNCHANGED <<envVars, concVars, uiVars, raised, settled, advVars, batchVars,
                 apiTest>>

\* lines 305-345: the answer of runRAG, or the message chosen by the catch
\* block
chat_respond ==
  /\ caller = "chat"
  /\ outcome = "pending"
  /\ stage \in {"done", "failed"}
  /\ response' = IF stage = "done"
                 THEN Json(200, "answer", answer)
                 ELSE Json(200, "answer", ChatClassify(thrown))
  /\ outcome' = "returned"
  /\ UNCHANGED <<envVars, concVars, uiVars, caller, raised, settled, runVars,
                 advVars, batchVars, chatQuery, apiTest>>

(***************************************************************************)
(* testGeminiAPI, the connectivity probe of GET /api/health, server/chat.js *)
(* lines 226-256.                                                          *)
(***************************************************************************)
NoApiTest == [status |-> "none", message |-> <<>>, accessible |-> FALSE]

\* lines 237-241: the arguments of the probe's call of runRAG
ProbeText == Str(<<"MOSDAC is a satellite data center.">>)

ProbeQuery == Str(<<"What is MOSDAC?">>)

ProbeOptions == [chunkSize |-> 100, topK |-> 1, maxTokens |-> 50]

\* lines 228-241: without the credential the probe reports an error at once,
\* otherwise it calls runRAG
testGeminiAPI_call ==
  /\ caller = "none"
  /\ caller' = "testGeminiAPI"
  /\ IF ~apiKey THEN
       /\ apiTest' = [status |-> "error",
                      message |-> <<"API key not configured">>,
                      accessible |-> FALSE]
       /\ outcome' = "returned"
       /\ UNCHANGED runVars
     ELSE
       /\ Enter(ProbeText, ProbeQuery, ProbeOptions)
       /\ outcome' = "pending"
       /\ UNCHANGED apiTest
  /\ UNCHANGED <<envVars, concVars, uiVars, raised, settled, advVars,
                 batchVars, chatQuery, response>>

\* lines 243-255: the report after runRAG has returned or thrown
testGeminiAPI_return ==
  /\ caller = "testGeminiAPI"
  /\ outcome = "pending"
  /\ stage \in {"done", "failed"}
  /\ apiTest' = IF stage = "done"
                THEN [status |-> "success",
                      message |-> <<"API accessible and responding">>,
                      accessible |-> TRUE]
                ELSE [status |-> "error", message |-> thrown,
                      accessible |-> FALSE]
  /\ outcome' = "returned"
  /\ UNCHANGED <<envVars, concVars, uiVars, caller, raised, settled, runVars,
                 advVars, batchVars, chatQuery, response>>

(***************************************************************************)
(* Overlapping executions of runRAG (requests handled while others await). *)
(***************************************************************************)
MaxExecutions == 2

Executions == 1..MaxExecutions

\* an execution slot in which runRAG has not been called
NotCalled == [stage |-> "idle", text |-> 0, topK |-> 0, documents |-> <<>>,
              vectorStore |-> <<>>, relevantDocs |-> <<>>]

\* the knowledge texts the overlapping calls are made with
KnowledgeTexts == 1..2

\* chunk j of knowledge text t
Chunk(t, j) == <<t, j>>

\* what a step of one execution leaves alone
OnlyExecutions ==
  UNCHANGED <<envVars, caller, outcome, raised, settled, runVars, advVars,
              batchVars, chatVars, uiVars>>

\* lines 20-43: runRAG is called with valid arguments while other executions
\* are at one of their awaits
concurrent_call(e) ==
  /\ executions[e].stage = "idle"
  /\ \E t \in KnowledgeTexts, k \in {1, 4} :
       executions' = [executions EXCEPT ![e] =
                        [NotCalled EXCEPT !.stage = "segmenting", !.text = t,
                                          !.topK = k]]
  /\ OnlyExecutions

\* lines 51-58: const documents = await textSplitter.createDocuments(...)
concurrent_split(e) ==
  /\ executions[e].stage = "segmenting"
  /\ \E n \in 1..MaxChunks :
       executions' = [executions EXCEPT
                        ![e].documents = [j \in 1..n |-> Chunk(executions[e].text, j)],
                        ![e].stage = "embedding"]
  /\ OnlyExecutions

\* concurrent_fromDocuments adding the entries to one store that all the
\* executions use
concurrent_fromDocumentsShared(e) ==
  /\ executions[e].stage = "embedding"
  /\ \/ executions' =
          [x \in Executions |->
             [executions[x] EXCEPT
                !.vectorStore = @ \o executions[e].documents,
                !.stage = IF x = e THEN "embeddingQuery" ELSE @]]
     \/ executions' = [executions EXCEPT ![e].stage = "failed"]
  /\ OnlyExecutions

\* lines 69-72: const vectorStore = await MemoryVectorStore.fromDocuments(...):
\* a new store, bound to the local once every chunk is embedded and added; or
\* the embedding fails
concurrent_fromDocuments(e) ==
  /\ executions[e].stage = "embedding"
  /\ \/ executions' = [executions EXCEPT
                          ![e].vectorStore = executions[e].documents,
                          ![e].stage = "embeddingQuery"]
     \/ executions' = [executions EXCEPT ![e].stage = "failed"]
  /\ OnlyExecutions

\* lines 76-79, first part: the query is embedded, or the embedding fails
concurrent_embedQuery(e) ==
  /\ executions[e].stage = "embeddingQuery"
  /\ \E next \in {"retrieving", "failed"} :
       executions' = [executions EXCEPT ![e].stage = next]
  /\ OnlyExecutions

\* lines 76-79, second part: the search in the store of this execution
concurrent_similaritySearch(e) ==
  /\ executions[e].stage = "retrieving"
  /\ \E r \in Rankings(executions[e].vectorStore) :
       executions' = [executions EXCEPT
                        ![e].relevantDocs =
                           Slice0(Ranked(executions[e].vectorStore, r),
                                  executions[e].topK),
                        ![e].stage = "retrieved"]
  /\ OnlyExecutions

(***************************************************************************)
(* The chat page, App.tsx.                                                 *)
(***************************************************************************)
\* lines 43-54: the message the conversation starts with
Greeting == [sender |-> "bot", text |-> <<"Hello! I'm MOSDAC AI Help Bot">>]

\* the number of messages the user may send
MaxSends == 2

\* line 116: the bot text when the response carries no answer
UiApology ==
  <<"I apologize, but I couldn't process your request at the moment.">>

\* line 134: the bot text of the catch block (after its warning sign)
UiConnectionError ==
  <<"Error: Unable to connect to MOSDAC AI service. ",
    "Please check your connection and try again.">>

\* SampleQuestions.tsx lines 10-31: the questions of the four buttons
SampleQuestionTexts ==
  {<<"What is INSAT-3D?">>,
   <<"How does MOSDAC help with weather forecasting?">>,
   <<"What oceanographic data does MOSDAC provide?">>,
   <<"What are the recent developments at MOSDAC?">>}

\* line 253: what the user may have in the input field
InputTexts == {<<>>, <<" ">>, <<" ", "Tell me about Oceansat", " ">>}

\* a rejected fetch promise (no response at all)
FetchRejected == [status |-> 0, body |-> ("error" :> <<"Failed to fetch">>)]

\* the ways the fetch of line 99 may settle: the responses of POST /api/chat
\* (an answer, an empty answer, a 400, a 500 carrying an answer field) or a
\* rejection
FetchOutcomes ==
  {Json(200, "answer", <<"INSAT-3D is a meteorological satellite">>),
   Json(200, "answer", <<>>),
   Json(400, "error", ChatMsgQueryRequired),
   Json(500, "answer", ChatMsgKeyMissing),
   FetchRejected}

\* response.ok
ResponseOk(r) == r.status \in 200..299

\* data.answer, '' standing for an absent field too
DataAnswer(r) == IF "answer" \in DOMAIN r.body THEN r.body["answer"] ELSE <<>>

\* lines 107-143: the text of the bot message for a settled fetch
BotText(r) ==
  IF r = FetchRejected \/ ~ResponseOk(r) THEN UiConnectionError
  ELSE IF DataAnswer(r) # <<>> THEN DataAnswer(r)
  ELSE UiApology

UserMessage(text) == [sender |-> "user", text |-> text]

BotMessage(text) == [sender |-> "bot", text |-> text]

UserMessages == {j \in DOMAIN messages : messages[j].sender = "user"}

OnlyUI == UNCHANGED <<envVars, caller, outcome, raised, settled, runVars,
                      advVars, batchVars, chatVars, concVars>>

\* the guard of handleSend without the test of isLoading
handleSendGuardIgnoresLoading(textToSend) == textToSend # <<>>

\* line 77: handleSend goes on only with a text and with no request pending
handleSendGuard(textToSend) == textToSend # <<>> /\ ~isLoading

\* lines 79-105: the user message is appended, the field cleared, isLoading
\* set and the request sent; the handler then waits for fetch
handleSend_request(textToSend) ==
  /\ Cardinality(UserMessages) < MaxSends
  /\ messages' = Append(messages, UserMessage(textToSend))
  /\ inputField' = <<>>
  /\ isLoading' = TRUE
  /\ inFlight' = Append(inFlight, [query |-> textToSend])

\* line 253: onChange of the input field
setInputText ==
  /\ \E v \in InputTexts : inputField' = v
  /\ UNCHANGED <<messages, isLoading, inFlight>>
  /\ OnlyUI

\* lines 150-155 and 263: the Enter key and the send button call handleSend()
\* with no argument, which takes the trimmed input field (line 76); the
\* handler may be called in every state, whatever controls are rendered
\* disabled
handleKeyPress ==
  /\ handleSendGuard(Trim(inputField))
  /\ handleSend_request(Trim(inputField))
  /\ OnlyUI

\* lines 157-160: a sample question is put in the field and sent; when
\* handleSend returns at its guard the question stays in the field
handleSampleQuestion ==
  /\ \E question \in SampleQuestionTexts :
       IF handleSendGuard(question)
       THEN handleSend_request(question)
       ELSE /\ inputField' = question
            /\ UNCHANGED <<messages, isLoading, inFlight>>
  /\ OnlyUI

\* lines 99-147: the fetch of a pending call of handleSend settles; the bot
\* message is appended and the finally block clears isLoading
handleSend_settle ==
  /\ \E k \in DOMAIN inFlight, r \in FetchOutcomes :
       /\ messages' = Append(messages, BotMessage(BotText(r)))
       /\ inFlight' = SubSeq(inFlight, 1, k - 1) \o
                      SubSeq(inFlight, k + 1, Len(inFlight))
  /\ isLoading' = FALSE
  /\ UNCHANGED inputField
  /\ OnlyUI

Idle ==
  /\ caller = "none"
  /\ outcome = "none"
  /\ raised = <<>>
  /\ stage = "idle"
  /\ inputText = Undefined
  /\ userQuery = Undefined
  /\ options = NoOptions
  /\ config = NoOptions
  /\ documents = <<>>
  /\ relevantDocs = <<>>
  /\ similarity = <<>>
  /\ prompt = NoPrompt
  /\ calls = <<>>
  /\ answer = <<>>
  /\ thrown = <<>>
  /\ logged = <<>>
  /\ generationConfig = NoOptions
  /\ settled = <<>>
  /\ advOptions = NoOptions
  /\ advResult = NoResult
  /\ queries = NotAnArray
  /\ i = 0
  /\ results = <<>>
  /\ chatQuery = Undefined
  /\ response = NoResponse
  /\ apiTest = NoApiTest
  /\ executions = [e \in Executions |-> NotCalled]
  /\ messages = <<Greeting>>
  /\ inputField = <<>>
  /\ isLoading = FALSE
  /\ inFlight = <<>>

\* the pipeline functions are called by a program in which the credential is
\* set or not
Init ==
  /\ apiKey \in BOOLEAN
  /\ knowledgeBase = KnowledgeText
  /\ Idle

\* single calls of runRAG and runAdvancedRAG
Next ==
  \/ runRAG_call
  \/ runRAG_return
  \/ runAdvancedRAG_call
  \/ runAdvancedRAG_return
  \/ runRAG_validate
  \/ runRAG_split
  \/ runRAG_embedDocuments
  \/ runRAG_embedQuery
  \/ runRAG_similaritySearch
  \/ runRAG_assemble
  \/ runRAG_generate

Spec == Init /\ [][Next]_vars

\* batch calls
NextBatch ==
  \/ runBatchRAG_call
  \/ runBatchRAG_next
  \/ runRAG_validate
  \/ runRAG_split
  \/ runRAG_embedDocuments
  \/ runRAG_embedQuery
  \/ runRAG_similaritySearch
  \/ runRAG_assemble
  \/ runRAG_generate

SpecBatch == Init /\ [][NextBatch]_vars

\* the chat server, lines 200-213: the knowledge base is the content of the
\* data file, '' when the file has no content, or the built-in text when the
\* file cannot be read
InitChat ==
  /\ apiKey \in BOOLEAN
  /\ knowledgeBase \in {KnowledgeText, Str(<<>>)}
  /\ Idle

NextChat ==
  \/ chat_request
  \/ chat_respond
  \/ testGeminiAPI_call
  \/ testGeminiAPI_return
  \/ runRAG_validate
  \/ runRAG_split
  \/ runRAG_embedDocuments
  \/ runRAG_embedQuery
  \/ runRAG_similaritySearch
  \/ runRAG_assemble
  \/ runRAG_generate

SpecChat == InitChat /\ [][NextChat]_vars

\* calls of runRAG that overlap: each step is a step of one of them
InitConcurrent ==
  /\ apiKey = TRUE
  /\ knowledgeBase = KnowledgeText
  /\ Idle

NextConcurrent ==
  \E e \in Executions :
    \/ concurrent_call(e)
    \/ concurrent_split(e)
    \/ concurrent_fromDocuments(e)
    \/ concurrent_embedQuery(e)
    \/ concurrent_similaritySearch(e)

SpecConcurrent == InitConcurrent /\ [][NextConcurrent]_vars

\* the chat page
InitUI ==
  /\ apiKey = TRUE
  /\ knowledgeBase = KnowledgeText
  /\ Idle

NextUI ==
  \/ setInputText
  \/ handleKeyPress
  \/ handleSampleQuestion
  \/ handleSend_settle

SpecUI == InitUI /\ [][NextUI]_vars

\* The chat server under the scheduling of the event loop: a step of local
\* computation that can run does run.  The three awaited service calls
\* (fromDocuments, the query embedding of similaritySearch, generateContent)
\* are settled by the remote service; the code sets no timer on them, so
\* nothing obliges them to settle.
SpecChatFair ==
  /\ SpecChat
  /\ WF_vars(runRAG_validate)
  /\ WF_vars(runRAG_split)
  /\ WF_vars(runRAG_similaritySearch)
  /\ WF_vars(runRAG_assemble)
  /\ WF_vars(chat_respond)
  /\ WF_vars(testGeminiAPI_return)

(***************************************************************************)
(* Properties.                                                             *)
(***************************************************************************)
\* a value that is a non-empty string
NonEmptyString(v) == v.t = "string" /\ v.s # <<>>

BatchReturned == caller = "runBatchRAG" /\ outcome = "returned"

\* C1: runBatchRAG isolates failures.  A call with a non-empty array never
\* throws; when it returns there is one outcome per query, the outcome of a
\* query whose execution of runRAG failed has status "error", the outcome of a
\* query whose execution succeeded has status "success", and a query that is
\* not a non-empty string is among the failures.
C1_BatchIsolatesFailures ==
  /\ (caller = "runBatchRAG" /\ queries.array /\ Len(queries.items) > 0)
       => outcome # "threw"
  /\ BatchReturned =>
       /\ Len(results) = Len(queries.items)
       /\ Len(settled) = Len(queries.items)
       /\ \A j \in 1..Len(results) :
            /\ results[j].status = IF settled[j] = "done" THEN "success" ELSE "error"
            /\ ~NonEmptyString(queries.items[j]) => results[j].status = "error"

\* C1 witness: [valid, "", valid] has returned success, error, success
C1_Witness ==
  /\ BatchReturned
  /\ Len(results) = 3
  /\ queries.items[2] = Str(<<>>)
  /\ results[1].status = "success"
  /\ results[2].status = "error"
  /\ results[3].status = "success"

\* C2: the outcomes are in input order.  At every moment the j-th outcome
\* pushed so far carries queries[j] as its query and j as its index.
C2_BatchKeepsInputOrder ==
  caller = "runBatchRAG" =>
    /\ Len(results) <= Len(queries.items)
    /\ \A j \in 1..Len(results) :
         /\ results[j].query = queries.items[j]
         /\ results[j].index = j

\* C2 witness: a returned batch of different queries with a failure before a
\* success
C2_Witness ==
  /\ BatchReturned
  /\ Len(results) >= 2
  /\ queries.items[1] # queries.items[2]
  /\ results[1].status = "error"
  /\ results[2].status = "success"

\* the configuration has been built (lines 36-43 have run)
ConfigBuilt == DOMAIN config # {}

\* C3: runRAG called with a knowledge text or a query that is not a non-empty
\* string fails, with the literal message of the failed check behind the fixed
\* "RAG system error: " prefix, without any call of the embedding or generation
\* service and without segmenting.
C3_InvalidInputRejected ==
  (stage \notin {"idle", "validating"}
   /\ (~NonEmptyString(inputText) \/ ~NonEmptyString(userQuery))) =>
    /\ stage = "failed"
    /\ calls = <<>>
    /\ documents = <<>>
    /\ thrown = RagErrorPrefix \o (IF ~NonEmptyString(inputText)
                                   THEN MsgInputText ELSE MsgUserQuery)

\* C3 witness: the empty knowledge text with a valid query and the credential
\* set has been rejected
C3_Witness ==
  /\ caller = "runRAG"
  /\ apiKey
  /\ inputText = Str(<<>>)
  /\ NonEmptyString(userQuery)
  /\ stage = "failed"
  /\ thrown = RagErrorPrefix \o MsgInputText

\* C4: a topK of 0 or less is rejected before any external call, so no
\* execution that has called a service runs with topK <= 0.
C4_TopKValidated ==
  calls # <<>> => config["topK"] >= 1

Last(seq) == seq[Len(seq)]

\* the embedding service failed: the last call is one of its two calls and
\* the execution failed; logged[1] is then the failure detail
EmbeddingFailed ==
  /\ stage = "failed"
  /\ calls # <<>>
  /\ Last(calls) \in {"embedDocuments", "embedQuery"}

\* C5 as stated: every embedding failure whose detail contains "quota"
\* surfaces as the fixed quota-exceeded message.
C5_QuotaAlwaysQuotaMessage ==
  (EmbeddingFailed /\ Includes(logged[1], "quota")) => thrown = MsgQuota

\* C5 amended: an embedding failure whose detail contains "quota" surfaces as
\* a fixed message without the raw service text: the quota-exceeded message,
\* unless the detail also contains "API_KEY", which is tested first and gives
\* the API-key message.
C5_QuotaMessageUnlessApiKey ==
  (EmbeddingFailed /\ Includes(logged[1], "quota")) =>
    /\ thrown = IF Includes(logged[1], "API_KEY") THEN MsgApiKey ELSE MsgQuota
    /\ ~Includes(thrown, RawText)

\* C5 witness: the query embedding failed with a detail holding "quota" and
\* "model" but not "API_KEY", and the quota message was thrown
C5_Witness ==
  /\ EmbeddingFailed
  /\ Last(calls) = "embedQuery"
  /\ Includes(logged[1], "quota")
  /\ Includes(logged[1], "model")
  /\ ~Includes(logged[1], "API_KEY")
  /\ thrown = MsgQuota

\* C6: after a failure of the embedding or generation service the message
\* runRAG throws contains none of the raw text of the service error.
C6_NoRawTextReturned ==
  (stage = "failed" /\ calls # <<>>) => ~Includes(thrown, RawText)

\* C7: every response of POST /api/chat has an answer field.
C7_ChatAlwaysAnswers ==
  (caller = "chat" /\ outcome = "returned") => "answer" \in DOMAIN response.body

AdvancedReturned == caller = "runAdvancedRAG" /\ outcome = "returned"

C9_DefaultsInMetadata ==
  /\ (caller = "runRAG" /\ DOMAIN options = {} /\ ConfigBuilt) =>
       /\ config["chunkSize"] \in 800..1000
       /\ config["topK"] = 4
  /\ (AdvancedReturned /\ DOMAIN advOptions = {}) =>
       /\ advResult.type = "object"
       /\ advResult.config["chunkSize"] \in 800..1000
       /\ advResult.config["topK"] = 4

\* C9 amended: with an empty config runRAG applies chunkSize 1000 and topK 4
\* (and returns no metadata); runAdvancedRAG with an empty config applies its
\* own defaults chunkSize 800 and topK 5, and those are the values echoed in
\* the config it returns.
C9_DefaultsPerEntryPoint ==
  /\ (caller = "runRAG" /\ DOMAIN options = {} /\ ConfigBuilt) =>
       /\ config["chunkSize"] = 1000
       /\ config["topK"] = 4
  /\ (caller = "runAdvancedRAG" /\ DOMAIN advOptions = {} /\ ConfigBuilt) =>
       /\ config["chunkSize"] = 800
       /\ config["topK"] = 5
  /\ (AdvancedReturned /\ DOMAIN advOptions = {}) =>
       /\ advResult.type = "object"
       /\ advResult.config["chunkSize"] = 800
       /\ advResult.config["topK"] = 5

\* C9 witness: runAdvancedRAG called with {} has returned its metadata
C9_Witness ==
  /\ AdvancedReturned
  /\ DOMAIN advOptions = {}
  /\ advResult.type = "object"

\* the documented defaults of runRAG
RunRAGDefault(k) ==
  CASE k = "chunkSize"    -> 1000
    [] k = "chunkOverlap" -> 200
    [] k = "topK"         -> 4
    [] k = "temperature"  -> 7
    [] k = "maxTokens"    -> 1000

\* the supplied value of a field, or the documented default
Effective(k) == IF k \in DOMAIN options THEN options[k] ELSE RunRAGDefault(k)

\* C10: for chunkSize, chunkOverlap, topK, temperature and maxTokens the
\* value runRAG uses is the supplied one (a supplied 0 included) and the
\* documented default when the field is not supplied: in the configuration,
\* in the splitter's acceptance of the chunking, in the number of chunks
\* retrieved and in the generation parameters.
C10_SuppliedOrDefault ==
  ConfigBuilt =>
    /\ \A k \in NumericKeys : config[k] = Effective(k)
    /\ documents # <<>> => Effective("chunkOverlap") < Effective("chunkSize")
    /\ stage \in {"assembling", "generating", "done"} =>
         Len(relevantDocs) = Len(Slice0(documents, Effective("topK")))
    /\ DOMAIN generationConfig # {} =>
         /\ generationConfig["temperature"] = Effective("temperature")
         /\ generationConfig["maxOutputTokens"] = Effective("maxTokens")

\* C10 witness: a call supplying temperature 0 and no maxTokens has generated
\* with temperature 0 and the default maxTokens
C10_Witness ==
  /\ caller = "runRAG"
  /\ stage = "done"
  /\ "temperature" \in DOMAIN options
  /\ options["temperature"] = 0
  /\ "maxTokens" \notin DOMAIN options
  /\ generationConfig["temperature"] = 0
  /\ generationConfig["maxOutputTokens"] = 1000

\* C11 as stated: whenever the credential is absent, runRAG fails with the
\* configuration error (the API-key message), before segmenting and without
\* any external call.
C11_MissingKeyIsConfigurationError ==
  (~apiKey /\ stage \notin {"idle", "validating"}) =>
    /\ stage = "failed"
    /\ calls = <<>>
    /\ documents = <<>>
    /\ thrown = MsgApiKey

\* C11 amended: when the credential is absent, runRAG fails before segmenting
\* and without any external call, the only thing logged being the literal of
\* the failed check.  The two argument checks come first: with a knowledge
\* text and a query that are non-empty strings the error is the configuration
\* error (the API-key message); otherwise it is the input error of C3.
C11_MissingKeyFailsBeforePipeline ==
  (~apiKey /\ stage \notin {"idle", "validating"}) =>
    /\ stage = "failed"
    /\ calls = <<>>
    /\ documents = <<>>
    /\ ~ConfigBuilt
    /\ IF NonEmptyString(inputText) /\ NonEmptyString(userQuery)
       THEN /\ logged = <<MsgKeyRequired>>
            /\ thrown = MsgApiKey
       ELSE /\ logged \in {<<MsgInputText>>, <<MsgUserQuery>>}
            /\ thrown = RagErrorPrefix \o logged[1]

\* C11 witness: a call with valid arguments and no credential has thrown the
\* API-key message without any call
C11_Witness ==
  /\ ~apiKey
  /\ caller = "runRAG"
  /\ outcome = "threw"
  /\ NonEmptyString(inputText)
  /\ NonEmptyString(userQuery)
  /\ raised = MsgApiKey
  /\ calls = <<>>

\* C12: when the generation service answers with an empty (or blank) text,
\* runRAG fails; it never returns the empty string as its answer.
C12_EmptyResponseFails ==
  stage = "done" => answer # <<>>

\* The stage of the per-query state machine that a position of runRAG belongs
\* to.  Everything before the first external call (the checks, the
\* configuration and the splitter, lines 22-58) is validation; the two calls
\* of the embedding service (the chunks, then the query) are the embedding;
\* the scoring of the stored chunks is the retrieval.
StageOf(s) ==
  CASE s = "segmenting"     -> "validating"
    [] s = "embeddingQuery" -> "embedding"
    [] OTHER                -> s

Forward ==
  {<<"idle", "validating">>, <<"validating", "embedding">>,
   <<"embedding", "retrieving">>, <<"retrieving", "assembling">>,
   <<"assembling", "generating">>, <<"generating", "done">>}

\* C13: every execution of runRAG goes through validating, embedding,
\* retrieving, assembling, generating and done in that order, one stage at a
\* time.  It fails only from validating (a rejected argument, credential or
\* chunking, before any external call), from embedding (the embedding call
\* just issued failed) or from generating (the generation call just issued
\* failed); the only other change of stage is the start of a new execution
\* after done or failed.
C13_StagesInOrder ==
  [][LET from == StageOf(stage)
         to   == StageOf(stage')
     IN from # to =>
          \/ <<from, to>> \in Forward
          \/ from \in {"done", "failed"} /\ to = "validating"
          \/ /\ to = "failed"
             /\ \/ /\ from = "validating"
                   /\ calls' = <<>>
                   /\ Last(logged') \in {MsgInputText, MsgUserQuery,
                                          MsgKeyRequired, MsgSplitter}
                \/ /\ from = "embedding"
                   /\ calls' \in {Append(calls, "embedDocuments"),
                                  Append(calls, "embedQuery")}
                   /\ Last(logged') \in Details
                \/ /\ from = "generating"
                   /\ calls' = Append(calls, "generateContent")
                   /\ Last(logged') \in Details]_vars

\* C13 witness: an execution has reached done with chunks retrieved, a prompt
\* built from them and the three calls made
C13_Witness ==
  /\ stage = "done"
  /\ relevantDocs # <<>>
  /\ Len(prompt.context) = Len(relevantDocs)
  /\ calls = <<"embedDocuments", "embedQuery", "generateContent">>

\* the external calls of one execution, in the order of the code
Pipeline == <<"embedDocuments", "embedQuery", "generateContent">>

IsPrefix(a, b) == Len(a) <= Len(b) /\ a = SubSeq(b, 1, Len(a))

\* C14: no retries.  The calls issued by one execution of runRAG are a prefix
\* of  chunk embedding, query embedding, generation  (each at most once), and
\* once the execution has failed no call is added: the calls stay as they are
\* until a new execution starts.
C14_NoRetries ==
  /\ [](IsPrefix(calls, Pipeline))
  /\ [][stage = "failed" =>
          \/ calls' = calls /\ stage' = "failed"
          \/ calls' = <<>> /\ stage' = "validating"]_vars

\* C14 witness: the chunk embedding failed and the error reached the caller
\* with that single call made
C14_Witness ==
  /\ caller = "runRAG"
  /\ outcome = "threw"
  /\ calls = <<"embedDocuments">>

\* C15: runBatchRAG runs runRAG once per query, one after the other in input
\* order.  While the batch is pending, the execution in progress is the one
\* for queries[i] (0-based), exactly i outcomes have been pushed, and exactly i
\* executions have ended before it (i + 1 once it has ended itself): the next
\* execution never starts before the previous one has ended.  When the batch
\* returns, as many executions have ended as there are queries.
C15_BatchSequential ==
  (caller = "runBatchRAG" /\ queries.array /\ Len(queries.items) > 0) =>
    /\ Len(results) = i
    /\ outcome = "pending" =>
         /\ i < Len(queries.items)
         /\ stage # "idle"
         /\ userQuery = queries.items[i + 1]
         /\ Len(settled) = IF stage \in {"done", "failed"} THEN i + 1 ELSE i
    /\ outcome = "returned" =>
         /\ i = Len(queries.items)
         /\ Len(settled) = Len(queries.items)

\* C15 witness: the execution for the second query is calling the embedding
\* service after the first execution has succeeded
C15_Witness ==
  /\ caller = "runBatchRAG"
  /\ outcome = "pending"
  /\ i = 1
  /\ stage = "embeddingQuery"
  /\ settled = <<"done">>
  /\ Len(results) = 1

\* C16: every outcome of runBatchRAG has status "success" or "error".  A
\* success has exactly the fields query, answer, index, status, its answer
\* being a string (the answer of runRAG); an error has exactly those fields
\* and error, its answer being null and its error the non-empty message
\* runRAG threw.
C16_OutcomeShape ==
  caller = "runBatchRAG" =>
    /\ \A j \in 1..Len(results) :
         LET o == results[j]
         IN /\ o.status \in {"success", "error"}
            /\ o.status = "success" =>
                 /\ DOMAIN o = {"query", "answer", "index", "status"}
                 /\ o.answer.t = "string"
            /\ o.status = "error" =>
                 /\ DOMAIN o = {"query", "answer", "error", "index", "status"}
                 /\ o.answer = Null
                 /\ o.error # <<>>
    /\ (outcome = "returned" /\ stage = "done") =>
         Last(results).answer = Str(answer)
    /\ (outcome = "returned" /\ stage = "failed") =>
         Last(results).error = thrown

\* C16 witness: a batch of two has returned a success with a non-empty answer
\* followed by an error carrying the quota message
C16_Witness ==
  /\ BatchReturned
  /\ Len(results) = 2
  /\ results[1].status = "success"
  /\ results[1].answer.s # <<>>
  /\ results[2].status = "error"
  /\ results[2].answer = Null
  /\ results[2].error = MsgQuota

\* C17: every external call of runRAG is bounded by a timeout, so an execution
\* that is waiting for the embedding service (for the chunks or for the query)
\* or for the generation service always leaves that wait.
C17_CallsBounded ==
  /\ (stage = "embedding") ~> (stage # "embedding")
  /\ (stage = "embeddingQuery") ~> (stage # "embeddingQuery")
  /\ (stage = "generating") ~> (stage # "generating")

\* the prompt has been built (and, from the generation call on, passed to the
\* generation service)
PromptBuilt ==
  \/ stage = "generating"
  \/ calls # <<>> /\ Last(calls) = "generateContent"

\* C18: the prompt built for n retrieved chunks has exactly n context blocks,
\* the j-th labelled [Context j] and holding the j-th retrieved chunk, so the
\* blocks follow the retrieval rank (a later block never scores higher), and
\* the question of the prompt is the user query as given.
C18_PromptBlocks ==
  PromptBuilt =>
    /\ Len(prompt.context) = Len(relevantDocs)
    /\ \A j \in 1..Len(prompt.context) :
         /\ prompt.context[j].label = j
         /\ prompt.context[j].pageContent = relevantDocs[j]
    /\ \A j, k \in 1..Len(prompt.context) :
         j < k => similarity[prompt.context[j].pageContent]
                    >= similarity[prompt.context[k].pageContent]
    /\ prompt.question = userQuery.s

\* C18 witness: a prompt of two blocks whose rank order is not the order of
\* the chunks in the text
C18_Witness ==
  /\ stage = "generating"
  /\ Len(prompt.context) = 2
  /\ prompt.context[1].label = 1
  /\ prompt.context[1].pageContent = 2
  /\ prompt.context[2].label = 2
  /\ prompt.context[2].pageContent = 1

Min(a, b) == IF a < b THEN a ELSE b

Range(seq) == {seq[j] : j \in DOMAIN seq}

\* C22: in every interleaving of overlapping executions of runRAG, the store
\* of an execution is either not yet bound or holds exactly the chunks of that
\* execution's own knowledge text, in order; the search of an execution runs
\* on that complete store and returns chunks of its own text only.
C22_OwnCompleteIndex ==
  \A e \in Executions :
    LET x == executions[e]
    IN /\ x.vectorStore \in {<<>>, x.documents}
       /\ x.stage \in {"retrieving", "retrieved"} =>
            /\ x.documents # <<>>
            /\ x.documents = [j \in 1..Len(x.documents) |-> Chunk(x.text, j)]
            /\ x.vectorStore = x.documents
       /\ x.stage = "retrieved" =>
            /\ Len(x.relevantDocs) = Min(x.topK, Len(x.documents))
            /\ Range(x.relevantDocs) \subseteq Range(x.documents)
            /\ \A j \in 1..Len(x.relevantDocs) : x.relevantDocs[j][1] = x.text

\* C22 witness: one execution has searched its two chunks while another, for
\* a different text, has built its store and is embedding its query
C22_Witness ==
  /\ executions[1].stage = "retrieved"
  /\ Len(executions[1].relevantDocs) = 2
  /\ executions[2].stage = "embeddingQuery"
  /\ executions[2].vectorStore # <<>>
  /\ executions[1].text # executions[2].text

\* C23: the index is built once per knowledge text and chunking.  Once a
\* query of a batch has succeeded (so the chunks of the text were made and
\* embedded with the options of the batch), the executions for the later
\* queries of that batch neither segment the text nor embed the chunks again.
C23_IndexBuiltOnce ==
  (/\ caller = "runBatchRAG"
   /\ outcome = "pending"
   /\ \E j \in 1..Len(results) : results[j].status = "success") =>
    /\ documents = <<>>
    /\ "embedDocuments" \notin Range(calls)

\* C24: a failure of the embedding service, for the chunks or for the query,
\* aborts the execution.  The step in which the failure is logged ends in
\* failed (no fallback embedding); in the failed execution there is no
\* retrieval result, no prompt, no generation call and no answer; and nothing
\* is added to it afterwards.
C24_EmbeddingFailureAborts ==
  /\ [](EmbeddingFailed =>
         /\ relevantDocs = <<>>
         /\ similarity = <<>>
         /\ prompt = NoPrompt
         /\ answer = <<>>
         /\ generationConfig = NoOptions
         /\ "generateContent" \notin Range(calls))
  /\ [][(stage \in {"embedding", "embeddingQuery"} /\ logged' # logged) =>
          stage' = "failed"]_vars
  /\ [][EmbeddingFailed =>
          \/ stage' = "failed" /\ calls' = calls /\ relevantDocs' = relevantDocs
          \/ stage' = "validating"]_vars

\* C24 witness: the query embedding failed after the chunks were embedded and
\* the caller got the error, nothing having been retrieved
C24_Witness ==
  /\ caller = "runRAG"
  /\ outcome = "threw"
  /\ calls = <<"embedDocuments", "embedQuery">>
  /\ documents # <<>>
  /\ relevantDocs = <<>>

\* C25: every failure of the embedding or generation service is rethrown as
\* one fixed message without the raw text of the service: the API-key
\* message when the detail has the authentication marker ("API_KEY"),
\* otherwise the quota message when it has "quota", otherwise the model
\* message when it has "model".
C25_OneFixedMessagePerSubKind ==
  (stage = "failed" /\ calls # <<>>) =>
    /\ ~Includes(thrown, RawText)
    /\ Includes(logged[1], "API_KEY") => thrown = MsgApiKey
    /\ (Includes(logged[1], "quota") /\ ~Includes(logged[1], "API_KEY")) =>
         thrown = MsgQuota
    /\ (/\ Includes(logged[1], "model")
        /\ ~Includes(logged[1], "quota")
        /\ ~Includes(logged[1], "API_KEY")) => thrown = MsgModel

\* C26: the two classification layers agree.  When runRAG throws, the chat
\* handler answers with the authentication, quota or model message when
\* runRAG threw its API-key, quota or model message, and with the
\* retrieval-unavailable message for every other error of runRAG.
C26_LayersAgree ==
  (caller = "chat" /\ outcome = "returned" /\ stage = "failed") =>
    response.body["answer"] =
      CASE thrown = MsgApiKey -> ChatMsgAuth
        [] thrown = MsgQuota  -> ChatMsgQuota
        [] thrown = MsgModel  -> ChatMsgModel
        [] OTHER              -> ChatMsgRag

\* C27: every call of runRAG made by the server runs with a configuration
\* in which chunkOverlap is smaller than chunkSize and topK is at least 1.
C27_RepositoryConfigsValid ==
  ConfigBuilt =>
    /\ config["chunkOverlap"] < config["chunkSize"]
    /\ config["topK"] >= 1

\* the fields runAdvancedRAG echoes
EchoedKeys == {"chunkSize", "chunkOverlap", "topK", "temperature"}

\* C28: when runAdvancedRAG returns its object, the chunkSize, chunkOverlap,
\* topK and temperature of the returned config are the values of the
\* configuration the execution of runRAG ran with: the splitter accepted that
\* chunking, the search took that topK and the generation that temperature.
C28_EchoIsEffective ==
  (AdvancedReturned /\ advResult.type = "object") =>
    /\ \A k \in EchoedKeys : advResult.config[k] = config[k]
    /\ advResult.config["chunkOverlap"] < advResult.config["chunkSize"]
    /\ Len(relevantDocs) = Len(Slice0(documents, advResult.config["topK"]))
    /\ generationConfig["temperature"] = advResult.config["temperature"]

\* C28 witness: a call supplying temperature 0 and no topK has returned a
\* config with temperature 0 and topK 5, and generated with temperature 0
C28_Witness ==
  /\ AdvancedReturned
  /\ advResult.type = "object"
  /\ "temperature" \in DOMAIN advOptions
  /\ advOptions["temperature"] = 0
  /\ "topK" \notin DOMAIN advOptions
  /\ advResult.config["temperature"] = 0
  /\ advResult.config["topK"] = 5
  /\ generationConfig["temperature"] = 0

\* the queries argument of the batch call is not a non-empty array
BadQueries == ~queries.array \/ Len(queries.items) = 0

\* C29: a call of runBatchRAG whose queries argument is not an array or is an
\* empty array has thrown 'Queries must be a non-empty array', no execution
\* of runRAG was started or has settled and no outcome was pushed; a call
\* with a non-empty array is never in the thrown state, starts no more
\* executions than it has queries, and has returned only with every query's
\* execution settled and one outcome per query.
C29_BatchArgumentCheck ==
  caller = "runBatchRAG" =>
    /\ BadQueries =>
         /\ outcome = "threw"
         /\ raised = MsgQueries
         /\ stage = "idle"
         /\ settled = <<>>
         /\ results = <<>>
    /\ ~BadQueries =>
         /\ outcome \in {"pending", "returned"}
         /\ Len(settled) <= Len(queries.items)
         /\ outcome = "returned" <=>
               /\ Len(settled) = Len(queries.items)
               /\ Len(results) = Len(queries.items)

\* C29 witness: a call with an argument that is not an array has thrown the
\* message with nothing run
C29_Witness ==
  /\ caller = "runBatchRAG"
  /\ ~queries.array
  /\ outcome = "threw"
  /\ raised = MsgQueries
  /\ stage = "idle"
  /\ results = <<>>

\* the non-empty answers a response may carry
AnswerTexts ==
  {DataAnswer(r) : r \in {o \in FetchOutcomes : ResponseOk(o)}} \ {<<>>}

\* the conversation is the greeting followed by user and bot messages in
\* turn, the last user message being without its bot message exactly while
\* isLoading, and every bot message after the greeting has a text of texts
Conversation(texts) ==
  /\ Len(inFlight) <= 1
  /\ isLoading <=> inFlight # <<>>
  /\ messages[1] = Greeting
  /\ \A j \in 2..Len(messages) :
       /\ messages[j].sender = IF j % 2 = 0 THEN "user" ELSE "bot"
       /\ j % 2 = 1 => messages[j].text \in texts
  /\ isLoading <=> Len(messages) % 2 = 0
  /\ isLoading => messages[Len(messages)].text = inFlight[1].query

====
